---- MODULE Spec2Model ----
(***************************************************************************)
(* Model of ethpm/contract.py: the LinkableContract factory (a contract    *)
(* type with link references), its linking-state gate on constructor and   *)
(* __init__, link_bytecode, validate_attr_dict, and the module functions   *)
(* is_prelinked_bytecode, apply_all_link_refs and apply_link_ref.          *)
(*                                                                         *)
(* Bytes are numbers, byte strings are sequences of bytes (1-indexed here, *)
(* 0-indexed offsets in the program).  Addresses are AddrLen bytes wide;   *)
(* the program's width of 20 is scaled down to keep the payloads small.    *)
(***************************************************************************)
EXTENDS Integers, Sequences, FiniteSets, TLC

\* Length in bytes of the payloads drawn as inputs.
MaxLen == 3

\* Width of a canonical address (eth_utils.is_canonical_address: 20 bytes),
\* scaled down.
AddrLen == 2

\* Byte values.  The program only compares bytes with zero and copies them,
\* so one zero and one non-zero value are kept.
Byte == {0, 1}

\* Names of the dependency contract types a link reference may carry.
Names == {"A", "B"}

\* The "length" a link reference may declare: shorter than, equal to and
\* longer than an address.
RefLengths == {AddrLen - 1, AddrLen, AddrLen + 1}

\* An optional list (a class attribute or keyword argument that may be
\* None): Python's None, or the list given.
None == [present |-> FALSE, items |-> <<>>]
Some(items) == [present |-> TRUE, items |-> items]

\* Exceptions, and the marker of a call that returned normally.
NoError == "ok"
BytecodeLinkingError == "BytecodeLinkingError"
ValidationError == "ValidationError"
KeyError == "KeyError"
TypeError == "TypeError"

\* A call's outcome: the exception raised, or NoError and the value returned.
Raise(e) == [err |-> e, val |-> <<>>]
Return(v) == [err |-> NoError, val |-> v]

\* Python truthiness of an optional tuple / list / string: None and the
\* empty sequence are false.
Truthy(x) == x.present /\ x.items # <<>>

----------------------------------------------------------------------------
(* Input domains *)

\* All byte strings of length n.
BytesOfLen(n) == [1..n -> Byte]

Payloads == BytesOfLen(MaxLen)

\* Values a caller may put in an attr_dict: byte strings (bytes |-> TRUE) of
\* the address width or one byte short, and a checksum-formatted string
\* (bytes |-> FALSE).
BytesValue(d) == [bytes |-> TRUE, data |-> d]
StrValue(d) == [bytes |-> FALSE, data |-> d]
ZeroAddress == BytesValue([i \in 1..AddrLen |-> 0])
CanonicalValues == {BytesValue(d) : d \in BytesOfLen(AddrLen)}
Values == CanonicalValues \cup {BytesValue(<<1>>), StrValue(<<1, 1>>)}

\* attr_dict: a dict from names to values.
AttrDictsOver(vals) == UNION {[ks -> vals] : ks \in SUBSET Names}

\* Offsets of one link reference: up to two distinct offsets, in any order.
Offsets == 0..(MaxLen - 1)
OffsetSeqs ==
    {<<>>} \cup {<<o>> : o \in Offsets}
           \cup {os \in [1..2 -> Offsets] : os[1] # os[2]}

LinkRef(n, os, l) == [name |-> n, offsets |-> os, length |-> l]
LinkRefs == {LinkRef(n, os, l) : n \in Names, os \in OffsetSeqs, l \in RefLengths}

\* link_refs of one payload: None, the empty list, one reference, or two
\* references of one offset each.
SingleOffset(r) == Len(r.offsets) = 1
LinkRefLists ==
    {None, Some(<<>>)} \cup {Some(<<r>>) : r \in LinkRefs}
        \cup {Some(rs) : rs \in {qs \in [1..2 -> LinkRefs] :
                                    SingleOffset(qs[1]) /\ SingleOffset(qs[2])}}

----------------------------------------------------------------------------
(* ethpm.validation.validate_empty_bytes and eth_utils helpers *)

\* bytecode[lo:hi], Python slicing of a byte string with 0 <= lo.
Slice(bytecode, lo, hi) ==
    LET h == IF hi > Len(bytecode) THEN Len(bytecode) ELSE hi
    IN  IF lo >= h THEN <<>> ELSE SubSeq(bytecode, lo + 1, h)

\* validate_empty_bytes(offset, length, bytecode) returns normally iff the
\* region [offset, offset + length) lies in bytecode and holds only zero
\* bytes; otherwise it raises ValidationError.
validate_empty_bytes(offset, length, bytecode) ==
    IF Slice(bytecode, offset, offset + length) = [i \in 1..length |-> 0]
    THEN Return(<<>>)
    ELSE Raise(ValidationError)

\* eth_utils.is_canonical_address: a byte string of the address width.
is_canonical_address(v) == v.bytes /\ Len(v.data) = AddrLen

\* eth_utils.to_bytes(hexstr=...): two hex digits per byte, an odd number of
\* digits is padded with a leading zero digit.
to_bytes(hexstr) ==
    LET h == IF Len(hexstr) % 2 = 1 THEN <<0>> \o hexstr ELSE hexstr
    IN  [i \in 1..(Len(h) \div 2) |-> 16 * h[2 * i - 1] + h[2 * i]]

\* The hex text of a byte string, as a manifest carries it.
HexOf(bytes) ==
    [i \in 1..(2 * Len(bytes)) |->
        IF i % 2 = 1 THEN bytes[(i + 1) \div 2] \div 16
                     ELSE bytes[i \div 2] % 16]

----------------------------------------------------------------------------
(* Module functions of ethpm/contract.py *)

\* The (reference, offset) pairs of a reference list in iteration order:
\* "for ref in link_refs for offset in ref['offsets']".
RECURSIVE RefOffsetPairs(_)
RefOffsetPairs(link_refs) ==
    IF link_refs = <<>> THEN <<>>
    ELSE LET ref == Head(link_refs)
         IN  [i \in 1..Len(ref.offsets) |-> [ref |-> ref, offset |-> ref.offsets[i]]]
             \o RefOffsetPairs(Tail(link_refs))

\* Mutant of is_prelinked_bytecode: True only when every referenced region
\* fails the emptiness check.
is_prelinked_bytecode_all(bytecode, link_refs) ==
    /\ RefOffsetPairs(link_refs.items) # <<>>
    /\ \A i \in DOMAIN RefOffsetPairs(link_refs.items) :
          LET p == RefOffsetPairs(link_refs.items)[i]
          IN  validate_empty_bytes(p.offset, p.ref.length, bytecode).err
                  = ValidationError

\* Mutant of is_prelinked_bytecode: only the first referenced region is
\* examined.
is_prelinked_bytecode_first_region(bytecode, link_refs) ==
    /\ RefOffsetPairs(link_refs.items) # <<>>
    /\ LET p == RefOffsetPairs(link_refs.items)[1]
       IN  validate_empty_bytes(p.offset, p.ref.length, bytecode).err = ValidationError

\* is_prelinked_bytecode: True as soon as one referenced region fails the
\* emptiness check, False when every region passes it.  link_refs is a list
\* here (the callers pass no None).
is_prelinked_bytecode(bytecode, link_refs) ==
    \E i \in DOMAIN RefOffsetPairs(link_refs.items) :
        LET p == RefOffsetPairs(link_refs.items)[i]
        IN  validate_empty_bytes(p.offset, p.ref.length, bytecode).err = ValidationError

\* Mutant of apply_link_ref: the value is inserted at offset, the region is
\* kept behind it.
apply_link_ref_insert(offset, length, value, bytecode) ==
    IF validate_empty_bytes(offset, length, bytecode).err = ValidationError
    THEN Raise(BytecodeLinkingError)
    ELSE IF ~value.bytes
    THEN Raise(TypeError)
    ELSE Return(Slice(bytecode, 0, offset) \o value.data
                \o Slice(bytecode, offset, Len(bytecode)))

\* Mutant of apply_link_ref: the region is overwritten without the
\* emptiness check.
apply_link_ref_unchecked(offset, length, value, bytecode) ==
    IF ~value.bytes
    THEN Raise(TypeError)
    ELSE Return(Slice(bytecode, 0, offset) \o value.data
                \o Slice(bytecode, offset + length, Len(bytecode)))

\* Mutant of apply_link_ref: the ValidationError of the emptiness check is
\* not caught.
apply_link_ref_uncaught(offset, length, value, bytecode) ==
    IF validate_empty_bytes(offset, length, bytecode).err = ValidationError
    THEN Raise(ValidationError)
    ELSE IF ~value.bytes
    THEN Raise(TypeError)
    ELSE Return(Slice(bytecode, 0, offset) \o value.data
                \o Slice(bytecode, offset + length, Len(bytecode)))

\* apply_link_ref(offset, length, value)(bytecode).
apply_link_ref(offset, length, value, bytecode) ==
    IF validate_empty_bytes(offset, length, bytecode).err = ValidationError
    THEN Raise(BytecodeLinkingError)
    ELSE IF ~value.bytes
    THEN Raise(TypeError)
    ELSE Return(Slice(bytecode, 0, offset) \o value.data
                \o Slice(bytecode, offset + length, Len(bytecode)))

\* pipe(bytecode, *link_fns): the functions applied left to right, the first
\* exception ends the call.
RECURSIVE pipe(_, _)
pipe(bytecode, link_fns) ==
    IF link_fns = <<>> THEN Return(bytecode)
    ELSE LET f == Head(link_fns)
             r == apply_link_ref(f.offset, f.length, f.value, bytecode)
         IN  IF r.err # NoError THEN r ELSE pipe(r.val, Tail(link_fns))

\* Mutant of apply_all_link_refs: only the first offset of each reference
\* is patched.
apply_all_link_refs_first_offset(bytecode, link_refs, attr_dict) ==
    IF ~link_refs.present THEN Return(bytecode)
    ELSE LET pairs == RefOffsetPairs(
                 [r \in DOMAIN link_refs.items |->
                     [link_refs.items[r] EXCEPT
                         !.offsets = IF @ = <<>> THEN <<>> ELSE <<Head(@)>>]])
         IN  IF \E i \in DOMAIN pairs : pairs[i].ref.name \notin DOMAIN attr_dict
             THEN Raise(KeyError)
             ELSE pipe(bytecode,
                       [i \in DOMAIN pairs |->
                           [offset |-> pairs[i].offset,
                            length |-> pairs[i].ref.length,
                            value |-> attr_dict[pairs[i].ref.name]]])

\* apply_all_link_refs.  The generator of link functions is unpacked before
\* pipe runs, so every attr_dict[ref["name"]] lookup happens before the
\* first patch step.
apply_all_link_refs(bytecode, link_refs, attr_dict) ==
    IF ~link_refs.present THEN Return(bytecode)
    ELSE LET pairs == RefOffsetPairs(link_refs.items)
         IN  IF \E i \in DOMAIN pairs : pairs[i].ref.name \notin DOMAIN attr_dict
             THEN Raise(KeyError)
             ELSE pipe(bytecode,
                       [i \in DOMAIN pairs |->
                           [offset |-> pairs[i].offset,
                            length |-> pairs[i].ref.length,
                            value |-> attr_dict[pairs[i].ref.name]]])

----------------------------------------------------------------------------
(* LinkableContract *)

\* Messages of the BytecodeLinkingError raised by the class.
MsgInstantiate == "Contract cannot be instantiated until its bytecode is linked."
MsgDeploy == "Contract cannot be deployed until its bytecode is linked."
MsgNoLinkable == "Contract factory has no linkable bytecode."
MsgNotRequired == "Bytecode for this contract factory does not require bytecode linking."
MsgStillNeeds == "Expected class to be fully linked, but class still needs bytecode linking."
MsgNoReferences == "Unable to validate attr dict, this contract has no linked/unlinked references."
MsgAllDefined == "All link references must be defined when calling link_bytecode on a contract factory."
MsgNotCanonical == "Address as specified in the attr_dict is not a valid canoncial address."
MsgCannotApply == "Link references cannot be applied to bytecode"
MsgNone == ""

\* A keyword argument carrying a payload: hex text (a manifest's) or bytes.
HexText(digits) == [hex |-> TRUE, data |-> digits]
RawBytes(bytes) == [hex |-> FALSE, data |-> bytes]

\* web3's normalizer of the bytecode attributes: the bytes of either form.
normalize_bytecode(v) == IF v.hex THEN to_bytes(v.data) ELSE v.data

\* kwargs.get(key): the optional list under key, None when absent.
KwGet(kwargs, key) == IF key \in DOMAIN kwargs THEN kwargs[key] ELSE None

\* The class attributes the model follows, as LinkableContract declares them.
LinkableContract ==
    [bytecode |-> <<>>, bytecode_runtime |-> <<>>,
     unlinked_references |-> None, linked_references |-> None,
     needs_bytecode_linking |-> FALSE]

\* needs_bytecode_linking as factory computes it from kwargs.
NeedsBytecodeLinking(kwargs) ==
    LET dep_link_refs == KwGet(kwargs, "unlinked_references")
    IN  IF Truthy(dep_link_refs) /\ "bytecode" \in DOMAIN kwargs
           /\ kwargs["bytecode"].data # <<>>
        THEN ~is_prelinked_bytecode(to_bytes(kwargs["bytecode"].data), dep_link_refs)
        ELSE FALSE

\* cls.factory(web3, **kwargs): a new subclass of cls whose attributes are
\* the keyword arguments (payloads normalized to bytes) and the computed
\* needs_bytecode_linking; every other attribute is inherited from cls.
factory(cls, kwargs) ==
    [bytecode |->
        IF "bytecode" \in DOMAIN kwargs
        THEN normalize_bytecode(kwargs["bytecode"]) ELSE cls.bytecode,
     bytecode_runtime |->
        IF "bytecode_runtime" \in DOMAIN kwargs
        THEN normalize_bytecode(kwargs["bytecode_runtime"]) ELSE cls.bytecode_runtime,
     unlinked_references |->
        IF "unlinked_references" \in DOMAIN kwargs
        THEN kwargs["unlinked_references"] ELSE cls.unlinked_references,
     linked_references |->
        IF "linked_references" \in DOMAIN kwargs
        THEN kwargs["linked_references"] ELSE cls.linked_references,
     needs_bytecode_linking |-> NeedsBytecodeLinking(kwargs)]

\* The outcome of a call on a class: the exception and its message, or
\* NoError; link_bytecode also returns a class and the steps it reached.
Raised(e, m) == [err |-> e, msg |-> m]
Passed == [err |-> NoError, msg |-> MsgNone]

\* The names of a reference list.
RefNames(link_refs) == {link_refs.items[i].name : i \in DOMAIN link_refs.items}

\* Mutant of validate_attr_dict: the runtime references are left out when
\* the class has both lists.
validate_attr_dict_unlinked_only(cls, attr_dict) ==
    LET unlinked == cls.unlinked_references
        linked == cls.linked_references
        all_link_refs == IF ~Truthy(unlinked) THEN linked ELSE unlinked
    IN  IF ~Truthy(unlinked) /\ ~Truthy(linked)
        THEN Raised(BytecodeLinkingError, MsgNoReferences)
        ELSE IF DOMAIN attr_dict # RefNames(all_link_refs)
        THEN Raised(BytecodeLinkingError, MsgAllDefined)
        ELSE IF \E n \in DOMAIN attr_dict : ~is_canonical_address(attr_dict[n])
        THEN Raised(BytecodeLinkingError, MsgNotCanonical)
        ELSE Passed

\* Mutant of validate_attr_dict: the values are not checked.
validate_attr_dict_any_value(cls, attr_dict) ==
    LET unlinked == cls.unlinked_references
        linked == cls.linked_references
        all_link_refs ==
            IF Truthy(unlinked) /\ Truthy(linked)
            THEN Some(unlinked.items \o linked.items)
            ELSE IF ~Truthy(unlinked) THEN linked ELSE unlinked
    IN  IF ~Truthy(unlinked) /\ ~Truthy(linked)
        THEN Raised(BytecodeLinkingError, MsgNoReferences)
        ELSE IF DOMAIN attr_dict # RefNames(all_link_refs)
        THEN Raised(BytecodeLinkingError, MsgAllDefined)
        ELSE Passed

\* Mutant of validate_attr_dict: a class without references is not
\* rejected, its set of required names is empty.
validate_attr_dict_no_absence_check(cls, attr_dict) ==
    LET unlinked == cls.unlinked_references
        linked == cls.linked_references
        all_link_refs ==
            IF Truthy(unlinked) /\ Truthy(linked)
            THEN Some(unlinked.items \o linked.items)
            ELSE IF ~Truthy(unlinked) THEN linked ELSE unlinked
    IN  IF DOMAIN attr_dict # RefNames(all_link_refs)
        THEN Raised(BytecodeLinkingError, MsgAllDefined)
        ELSE IF \E n \in DOMAIN attr_dict : ~is_canonical_address(attr_dict[n])
        THEN Raised(BytecodeLinkingError, MsgNotCanonical)
        ELSE Passed

\* validate_attr_dict.
validate_attr_dict(cls, attr_dict) ==
    LET attr_dict_names == DOMAIN attr_dict
        unlinked == cls.unlinked_references
        linked == cls.linked_references
        all_link_refs ==
            IF Truthy(unlinked) /\ Truthy(linked)
            THEN Some(unlinked.items \o linked.items)
            ELSE IF ~Truthy(unlinked) THEN linked ELSE unlinked
    IN  IF ~Truthy(unlinked) /\ ~Truthy(linked)
        THEN Raised(BytecodeLinkingError, MsgNoReferences)
        ELSE IF attr_dict_names # RefNames(all_link_refs)
        THEN Raised(BytecodeLinkingError, MsgAllDefined)
        ELSE IF \E n \in DOMAIN attr_dict : ~is_canonical_address(attr_dict[n])
        THEN Raised(BytecodeLinkingError, MsgNotCanonical)
        ELSE Passed

\* The outcome of link_bytecode: steps lists the stages reached, class is
\* the class returned (when err = NoError).
LinkOutcome(e, m, steps, class) ==
    [err |-> e, msg |-> m, steps |-> steps, class |-> class]

StepChecks == "state_checks"
StepValidate == "validate_attr_dict"
StepPatchBytecode == "apply_all_link_refs(bytecode)"
StepPatchRuntime == "apply_all_link_refs(bytecode_runtime)"
StepFactory == "factory"

\* The message of an exception leaving apply_all_link_refs.
PatchMsg(out) == IF out.err = BytecodeLinkingError THEN MsgCannotApply ELSE MsgNone

\* Mutant of link_bytecode: a failure of the runtime patch is swallowed and
\* the class is built with the runtime bytecode as it was.
link_bytecode_keeps_runtime(cls, attr_dict) ==
    LET valid == validate_attr_dict(cls, attr_dict)
        bytecode == apply_all_link_refs(cls.bytecode, cls.unlinked_references, attr_dict)
        linked_class == factory(cls, [bytecode |-> RawBytes(bytecode.val)])
        all_steps == <<StepChecks, StepValidate, StepPatchBytecode,
                       StepPatchRuntime, StepFactory>>
    IN  IF ~Truthy(cls.unlinked_references) /\ ~Truthy(cls.linked_references)
        THEN LinkOutcome(BytecodeLinkingError, MsgNoLinkable, <<StepChecks>>, cls)
        ELSE IF ~cls.needs_bytecode_linking
        THEN LinkOutcome(BytecodeLinkingError, MsgNotRequired, <<StepChecks>>, cls)
        ELSE IF valid.err # NoError
        THEN LinkOutcome(valid.err, valid.msg, <<StepChecks, StepValidate>>, cls)
        ELSE IF bytecode.err # NoError
        THEN LinkOutcome(bytecode.err, PatchMsg(bytecode),
                         <<StepChecks, StepValidate, StepPatchBytecode>>, cls)
        ELSE LinkOutcome(NoError, MsgNone, all_steps, linked_class)

\* Mutant of link_bytecode: a class that does not need linking is not
\* refused.
link_bytecode_relinks(cls, attr_dict) ==
    LET valid == validate_attr_dict(cls, attr_dict)
        bytecode == apply_all_link_refs(cls.bytecode, cls.unlinked_references, attr_dict)
        runtime == apply_all_link_refs(cls.bytecode_runtime, cls.linked_references,
                                       attr_dict)
        linked_class ==
            factory(cls, [bytecode_runtime |-> RawBytes(runtime.val),
                          bytecode |-> RawBytes(bytecode.val)])
    IN  IF ~Truthy(cls.unlinked_references) /\ ~Truthy(cls.linked_references)
        THEN LinkOutcome(BytecodeLinkingError, MsgNoLinkable, <<StepChecks>>, cls)
        ELSE IF valid.err # NoError
        THEN LinkOutcome(valid.err, valid.msg, <<StepChecks, StepValidate>>, cls)
        ELSE IF bytecode.err # NoError
        THEN LinkOutcome(bytecode.err, PatchMsg(bytecode),
                         <<StepChecks, StepValidate, StepPatchBytecode>>, cls)
        ELSE IF runtime.err # NoError
        THEN LinkOutcome(runtime.err, PatchMsg(runtime),
                         <<StepChecks, StepValidate, StepPatchBytecode,
                           StepPatchRuntime>>, cls)
        ELSE LinkOutcome(NoError, MsgNone,
                         <<StepChecks, StepValidate, StepPatchBytecode,
                           StepPatchRuntime, StepFactory>>, linked_class)

\* Mutant of link_bytecode: the attr_dict is not validated before the
\* payloads are patched.
link_bytecode_skips_validation(cls, attr_dict) ==
    LET bytecode == apply_all_link_refs(cls.bytecode, cls.unlinked_references, attr_dict)
        runtime == apply_all_link_refs(cls.bytecode_runtime, cls.linked_references,
                                       attr_dict)
        linked_class ==
            factory(cls, [bytecode_runtime |-> RawBytes(runtime.val),
                          bytecode |-> RawBytes(bytecode.val)])
    IN  IF ~Truthy(cls.unlinked_references) /\ ~Truthy(cls.linked_references)
        THEN LinkOutcome(BytecodeLinkingError, MsgNoLinkable, <<StepChecks>>, cls)
        ELSE IF ~cls.needs_bytecode_linking
        THEN LinkOutcome(BytecodeLinkingError, MsgNotRequired, <<StepChecks>>, cls)
        ELSE IF bytecode.err # NoError
        THEN LinkOutcome(bytecode.err, PatchMsg(bytecode),
                         <<StepChecks, StepPatchBytecode>>, cls)
        ELSE IF runtime.err # NoError
        THEN LinkOutcome(runtime.err, PatchMsg(runtime),
                         <<StepChecks, StepPatchBytecode, StepPatchRuntime>>, cls)
        ELSE LinkOutcome(NoError, MsgNone,
                         <<StepChecks, StepPatchBytecode, StepPatchRuntime,
                           StepFactory>>, linked_class)

\* link_bytecode.
link_bytecode(cls, attr_dict) ==
    LET valid == validate_attr_dict(cls, attr_dict)
        bytecode == apply_all_link_refs(cls.bytecode, cls.unlinked_references, attr_dict)
        runtime == apply_all_link_refs(cls.bytecode_runtime, cls.linked_references,
                                       attr_dict)
        linked_class ==
            factory(cls, [bytecode_runtime |-> RawBytes(runtime.val),
                          bytecode |-> RawBytes(bytecode.val)])
    IN  IF ~Truthy(cls.unlinked_references) /\ ~Truthy(cls.linked_references)
        THEN LinkOutcome(BytecodeLinkingError, MsgNoLinkable, <<StepChecks>>, cls)
        ELSE IF ~cls.needs_bytecode_linking
        THEN LinkOutcome(BytecodeLinkingError, MsgNotRequired, <<StepChecks>>, cls)
        ELSE IF valid.err # NoError
        THEN LinkOutcome(valid.err, valid.msg, <<StepChecks, StepValidate>>, cls)
        ELSE IF bytecode.err # NoError
        THEN LinkOutcome(bytecode.err, PatchMsg(bytecode),
                         <<StepChecks, StepValidate, StepPatchBytecode>>, cls)
        ELSE IF runtime.err # NoError
        THEN LinkOutcome(runtime.err, PatchMsg(runtime),
                         <<StepChecks, StepValidate, StepPatchBytecode,
                           StepPatchRuntime>>, cls)
        ELSE IF linked_class.needs_bytecode_linking
        THEN LinkOutcome(BytecodeLinkingError, MsgStillNeeds,
                         <<StepChecks, StepValidate, StepPatchBytecode,
                           StepPatchRuntime, StepFactory>>, cls)
        ELSE LinkOutcome(NoError, MsgNone,
                         <<StepChecks, StepValidate, StepPatchBytecode,
                           StepPatchRuntime, StepFactory>>, linked_class)

\* ethpm.validation.validate_address: raises ValidationError unless the
\* address is well-formed (a canonical address).
validate_address(address) ==
    IF is_canonical_address(address) THEN Passed
    ELSE Raised(ValidationError, MsgNone)

StepLinkingCheck == "needs_bytecode_linking"
StepValidateAddress == "validate_address"
StepSuper == "super"

\* The outcome of constructor and of __init__: steps lists the stages
\* reached, StepSuper being the call of web3's Contract.
CallOutcome(e, m, steps) == [err |-> e, msg |-> m, steps |-> steps]

\* constructor.
constructor(cls) ==
    IF cls.needs_bytecode_linking
    THEN CallOutcome(BytecodeLinkingError, MsgDeploy, <<StepLinkingCheck>>)
    ELSE CallOutcome(NoError, MsgNone, <<StepLinkingCheck, StepSuper>>)

\* Mutant of __init__: the address is validated before the linking check.
init_validates_first(cls, address) ==
    IF validate_address(address).err # NoError
    THEN CallOutcome(ValidationError, MsgNone,
                     <<StepValidateAddress>>)
    ELSE IF cls.needs_bytecode_linking
    THEN CallOutcome(BytecodeLinkingError, MsgInstantiate,
                     <<StepValidateAddress, StepLinkingCheck>>)
    ELSE CallOutcome(NoError, MsgNone,
                     <<StepValidateAddress, StepLinkingCheck, StepSuper>>)

\* Mutant of __init__: the address goes to web3's Contract unvalidated.
init_skips_validate_address(cls, address) ==
    IF cls.needs_bytecode_linking
    THEN CallOutcome(BytecodeLinkingError, MsgInstantiate, <<StepLinkingCheck>>)
    ELSE CallOutcome(NoError, MsgNone, <<StepLinkingCheck, StepSuper>>)

\* __init__(address).
init(cls, address) ==
    IF cls.needs_bytecode_linking
    THEN CallOutcome(BytecodeLinkingError, MsgInstantiate, <<StepLinkingCheck>>)
    ELSE IF validate_address(address).err # NoError
    THEN CallOutcome(ValidationError, MsgNone,
                     <<StepLinkingCheck, StepValidateAddress>>)
    ELSE CallOutcome(NoError, MsgNone,
                     <<StepLinkingCheck, StepValidateAddress, StepSuper>>)

----------------------------------------------------------------------------
(* State *)

\* The most classes the model creates.
MaxClasses == 2

VARIABLES
    manifest,     \* the keyword arguments the first factory call was given
    classes,      \* the contract classes created so far, classes[1] the first
    origin,       \* per class: the class it was linked from (0: none) and the attr_dict
    last,         \* the last call on a class and its outcome
    p_bytecode,   \* apply_all_link_refs called directly: its bytecode,
    p_link_refs,  \*   its link_refs
    p_attr_dict,  \*   and its attr_dict
    p_out,        \* the outcome of that call
    p_scan,       \* is_prelinked_bytecode of the returned bytecode
    p_input_scan, \* is_prelinked_bytecode of p_bytecode itself
    p_second      \* apply_all_link_refs called again on the returned bytecode

vars == <<manifest, classes, origin, last,
          p_bytecode, p_link_refs, p_attr_dict, p_out, p_scan, p_input_scan, p_second>>

classVars == <<manifest, classes, origin, last>>
patchVars == <<p_bytecode, p_link_refs, p_attr_dict, p_out, p_scan, p_input_scan, p_second>>

EmptyDict == [n \in {} |-> ZeroAddress]

\* The record of a call: the method, the class it was called on, its
\* attr_dict or address argument, its outcome, and the class returned (0: none).
NoCall == [op |-> "none", cls |-> 0, attr_dict |-> EmptyDict, address |-> ZeroAddress,
           err |-> NoError, msg |-> MsgNone, steps |-> <<>>, ret |-> 0]
Called(op, c, attr_dict, address, out, ret) ==
    [op |-> op, cls |-> c, attr_dict |-> attr_dict, address |-> address,
     err |-> out.err, msg |-> out.msg, steps |-> out.steps, ret |-> ret]

NotCalled == [called |-> FALSE, err |-> NoError, val |-> <<>>]
Outcome(out) == [called |-> TRUE, err |-> out.err, val |-> out.val]
NotScanned == [called |-> FALSE, prelinked |-> FALSE]
NoSecond == [called |-> FALSE, same |-> FALSE, err |-> NoError, val |-> <<>>]

\* Manifests of the first class.  Deployment bytecode: MaxLen bytes with at
\* most one non-zero byte, or empty.  Its references: none, one reference
\* of one or two offsets, or two references, with lengths of the address
\* width and one byte short of it.  Runtime bytecode and its references: all
\* zero or with a non-zero first byte, one reference or none.
NonZeroCount(bytes) == Cardinality({i \in DOMAIN bytes : bytes[i] # 0})
ManifestBytecodes == {p \in Payloads : NonZeroCount(p) <= 1} \cup {<<>>}
ManifestUnlinked ==
    {None, Some(<<>>),
     Some(<<LinkRef("A", <<0>>, AddrLen)>>),
     Some(<<LinkRef("A", <<1>>, AddrLen)>>),
     Some(<<LinkRef("A", <<0, MaxLen - 1>>, AddrLen - 1)>>),
     Some(<<LinkRef("A", <<0>>, AddrLen - 1), LinkRef("B", <<1>>, AddrLen)>>)}
ZeroPayload == [i \in 1..MaxLen |-> 0]
FirstNonZero == [i \in 1..MaxLen |-> IF i = 1 THEN 1 ELSE 0]
ManifestRuntimes ==
    {[bytecode_runtime |-> ZeroPayload, linked_references |-> None],
     [bytecode_runtime |-> ZeroPayload,
      linked_references |-> Some(<<LinkRef("A", <<0>>, AddrLen)>>)],
     [bytecode_runtime |-> FirstNonZero,
      linked_references |-> Some(<<LinkRef("A", <<0>>, AddrLen)>>)],
     [bytecode_runtime |-> FirstNonZero,
      linked_references |-> Some(<<LinkRef("B", <<1>>, AddrLen)>>)]}

ManifestKwargs(m) ==
    LET payloads == [bytecode |-> HexText(HexOf(m.bytecode)),
                     bytecode_runtime |-> HexText(HexOf(m.bytecode_runtime))]
        unlinked == IF m.unlinked_references.present
                    THEN [unlinked_references |-> m.unlinked_references]
                    ELSE EmptyDict
        linked == IF m.linked_references.present
                  THEN [linked_references |-> m.linked_references]
                  ELSE EmptyDict
    IN  payloads @@ unlinked @@ linked

\* attr_dicts and addresses the callers of a class pass: under each name an
\* address (all zero, or with a zero byte) or a value that is no canonical
\* address: a byte string one byte short under "A", a checksum string
\* under "B".
CallValues(n) ==
    {ZeroAddress, BytesValue(<<0, 1>>)}
        \cup (IF n = "A" THEN {BytesValue(<<1>>)} ELSE {StrValue(<<1, 1>>)})
CallAttrDicts ==
    {d \in AttrDictsOver(Values) : \A n \in DOMAIN d : d[n] \in CallValues(n)}
CallAddresses == {BytesValue(<<0, 1>>), BytesValue(<<1>>), StrValue(<<1, 1>>)}

ClassInit ==
    /\ \E b \in ManifestBytecodes, u \in ManifestUnlinked, r \in ManifestRuntimes :
          manifest = [bytecode |-> b, unlinked_references |-> u] @@ r
    /\ classes = <<factory(LinkableContract, ManifestKwargs(manifest))>>
    /\ origin = <<[parent |-> 0, attr_dict |-> EmptyDict]>>
    /\ last = NoCall

ClassIdle ==
    /\ manifest = [bytecode |-> <<>>, bytecode_runtime |-> <<>>,
                   unlinked_references |-> None, linked_references |-> None]
    /\ classes = <<>>
    /\ origin = <<>>
    /\ last = NoCall

PatchIdle ==
    /\ p_bytecode = <<>>
    /\ p_link_refs = None
    /\ p_attr_dict = EmptyDict
    /\ p_out = NotCalled
    /\ p_scan = NotScanned
    /\ p_input_scan = NotScanned
    /\ p_second = NoSecond

Init == ClassInit /\ PatchIdle

----------------------------------------------------------------------------
(* Calls on a class *)

\* Mutant of ClassesAfterLink: the class linked is also rewritten in place.
ClassesAfterLink_in_place(c, new_class) ==
    [Append(classes, new_class) EXCEPT ![c] = new_class]

\* The classes after link_bytecode returned new_class to its caller.
ClassesAfterLink(c, new_class) == Append(classes, new_class)

\* cls.link_bytecode(attr_dict) on class c.
LinkBytecode(c, attr_dict) ==
    \E out \in {link_bytecode(classes[c], attr_dict)} :
        /\ out.err = NoError => Len(classes) < MaxClasses
        /\ IF out.err = NoError
           THEN /\ classes' = ClassesAfterLink(c, out.class)
                /\ origin' = Append(origin, [parent |-> c, attr_dict |-> attr_dict])
                /\ last' = Called("link_bytecode", c, attr_dict, ZeroAddress, out,
                                     Len(classes) + 1)
           ELSE /\ last' = Called("link_bytecode", c, attr_dict, ZeroAddress, out, 0)
                /\ UNCHANGED <<classes, origin>>
        /\ UNCHANGED <<manifest, patchVars>>

\* cls.validate_attr_dict(attr_dict) on class c.
ValidateAttrDict(c, attr_dict) ==
    \E out \in {validate_attr_dict(classes[c], attr_dict)} :
        /\ last' = Called("validate_attr_dict", c, attr_dict, ZeroAddress,
                          [err |-> out.err, msg |-> out.msg, steps |-> <<>>], 0)
        /\ UNCHANGED <<manifest, classes, origin, patchVars>>

\* cls.constructor(*args) on class c.
Constructor(c) ==
    /\ last' = Called("constructor", c, EmptyDict, ZeroAddress,
                      constructor(classes[c]), 0)
    /\ UNCHANGED <<manifest, classes, origin, patchVars>>

\* cls(address) on class c.
Instantiate(c, address) ==
    /\ last' = Called("__init__", c, EmptyDict, address,
                      init(classes[c], address), 0)
    /\ UNCHANGED <<manifest, classes, origin, patchVars>>

Next ==
    \/ \E c \in DOMAIN classes, attr_dict \in CallAttrDicts : LinkBytecode(c, attr_dict)
    \/ \E c \in DOMAIN classes, attr_dict \in CallAttrDicts : ValidateAttrDict(c, attr_dict)
    \/ \E c \in DOMAIN classes : Constructor(c)
    \/ \E c \in DOMAIN classes, address \in CallAddresses : Instantiate(c, address)

Spec == Init /\ [][Next]_vars

----------------------------------------------------------------------------
(* apply_all_link_refs and is_prelinked_bytecode called directly *)

\* The reference lists given to the patcher: none, empty, one reference "A"
\* of up to two offsets, or references "A" and "B" of one offset each.
PatchRefLists ==
    {l \in LinkRefLists :
        \A i \in DOMAIN l.items : l.items[i].name = (IF i = 1 THEN "A" ELSE "B")}

\* The attr_dicts given to the patcher: both names defined, with addresses
\* and a byte string one byte short, or only "B" defined.
PatchValues == {ZeroAddress, BytesValue(<<0, 1>>), BytesValue(<<1>>)}
PatchAttrDicts == [Names -> PatchValues] \cup [{"B"} -> {ZeroAddress}]

PatchInit ==
    /\ ClassIdle
    /\ p_bytecode \in Payloads
    /\ p_link_refs \in PatchRefLists
    /\ p_attr_dict \in PatchAttrDicts
    /\ p_out = NotCalled
    /\ p_scan = NotScanned
    /\ p_input_scan = NotScanned
    /\ p_second = NoSecond

\* apply_all_link_refs(p_bytecode, p_link_refs, p_attr_dict).  A payload is
\* either patched or scanned as given: the two calls share no state.
ApplyAllLinkRefs ==
    /\ ~p_out.called
    /\ ~p_input_scan.called
    /\ p_out' = Outcome(apply_all_link_refs(p_bytecode, p_link_refs, p_attr_dict))
    /\ UNCHANGED <<p_bytecode, p_link_refs, p_attr_dict, p_scan, p_input_scan, p_second, classVars>>

\* is_prelinked_bytecode(p_bytecode, p_link_refs): the scan of a payload as
\* it was given, before any patching, as factory runs it.
Scan ==
    /\ ~p_out.called
    /\ p_link_refs.present
    /\ ~p_input_scan.called
    /\ p_input_scan' = [called |-> TRUE,
                        prelinked |-> is_prelinked_bytecode(p_bytecode, p_link_refs)]
    /\ UNCHANGED <<p_bytecode, p_link_refs, p_attr_dict, p_out, p_scan, p_second, classVars>>

\* is_prelinked_bytecode(returned bytecode, p_link_refs).
Rescan ==
    /\ p_out.called /\ p_out.err = NoError
    /\ p_link_refs.present
    /\ ~p_scan.called
    /\ p_scan' = [called |-> TRUE,
                  prelinked |-> is_prelinked_bytecode(p_out.val, p_link_refs)]
    /\ UNCHANGED <<p_bytecode, p_link_refs, p_attr_dict, p_out, p_input_scan, p_second, classVars>>

\* apply_all_link_refs(returned bytecode, link_refs, p_attr_dict): the
\* patcher applied to its own result, with the same or another list.
ApplyAgain(link_refs) ==
    \E out \in {apply_all_link_refs(p_out.val, link_refs, p_attr_dict)} :
        /\ p_out.called /\ p_out.err = NoError
        /\ ~p_second.called
        /\ p_second' = [called |-> TRUE, same |-> (link_refs = p_link_refs),
                        err |-> out.err, val |-> out.val]
        /\ UNCHANGED <<p_bytecode, p_link_refs, p_attr_dict, p_out, p_scan, p_input_scan, classVars>>

\* The lists of the second call: the same list, or any list of at most
\* one reference.
SecondRefLists == {p_link_refs} \cup {l \in PatchRefLists : Len(l.items) <= 1}

PatchNext ==
    \/ ApplyAllLinkRefs
    \/ Scan
    \/ Rescan
    \/ \E link_refs \in SecondRefLists : ApplyAgain(link_refs)

PatchSpec == PatchInit /\ [][PatchNext]_vars

----------------------------------------------------------------------------
(* Properties of the patcher and the scanner (PatchSpec) *)

\* The (reference, offset) pairs of the patcher's list, none for None.
Pairs == RefOffsetPairs(p_link_refs.items)
\* The positions (1-indexed) of the region of pair i.
Region(i) == (Pairs[i].offset + 1)..(Pairs[i].offset + Pairs[i].ref.length)
RegionsInRange == \A i \in DOMAIN Pairs : \A k \in Region(i) : k <= Len(p_bytecode)
RegionsDisjoint ==
    \A i, j \in DOMAIN Pairs : i # j => Region(i) \cap Region(j) = {}
RegionsAllZero ==
    RegionsInRange /\ \A i \in DOMAIN Pairs : \A k \in Region(i) : p_bytecode[k] = 0
NamesDefined == \A i \in DOMAIN Pairs : Pairs[i].ref.name \in DOMAIN p_attr_dict
ValueOf(i) == p_attr_dict[Pairs[i].ref.name]
ValuesFitRegions ==
    \A i \in DOMAIN Pairs :
        ValueOf(i).bytes /\ Len(ValueOf(i).data) = Pairs[i].ref.length
AllCanonical == \A n \in DOMAIN p_attr_dict : is_canonical_address(p_attr_dict[n])
AddressWideRefs == \A i \in DOMAIN Pairs : Pairs[i].ref.length = AddrLen
SomeNonZeroPatched == \E i \in DOMAIN Pairs : ValueOf(i) # ZeroAddress

C4_LengthInvariant ==
    (p_out.called /\ p_out.err = NoError /\ RegionsAllZero /\ NamesDefined
        /\ AllCanonical)
    => Len(p_out.val) = Len(p_bytecode)

\* C5, as claimed: for a payload whose referenced regions (at least one, of
\* the address width) are all zero and an attr_dict of canonical addresses,
\* zero bytes allowed, the patched payload re-scanned with the same
\* reference list is reported pre-linked.
C5_RoundTripAnyAddress ==
    (p_scan.called /\ RegionsAllZero /\ NamesDefined /\ AllCanonical
        /\ AddressWideRefs /\ Pairs # <<>>)
    => p_scan.prelinked

\* C5, amended: for a payload whose referenced regions are all zero, a list
\* of references of the address width and an attr_dict of canonical
\* addresses of which at least one patched address is not the all-zero
\* address, the patched payload re-scanned with the same reference list is
\* reported pre-linked.
C5_RoundTripNonZeroAddress ==
    (p_scan.called /\ RegionsAllZero /\ NamesDefined /\ AllCanonical
        /\ AddressWideRefs /\ SomeNonZeroPatched)
    => p_scan.prelinked

\* Reached: an address with a zero byte patched beside the all-zero address,
\* and the re-scan reports pre-linked.
C5_Witness ==
    /\ p_scan.called /\ p_scan.prelinked
    /\ RegionsAllZero /\ NamesDefined /\ AllCanonical /\ AddressWideRefs
    /\ \E i, j \in DOMAIN Pairs :
          ValueOf(i) = ZeroAddress /\ ValueOf(j) = BytesValue(<<0, 1>>)

\* C6, as claimed: applying apply_all_link_refs to the payload it returned
\* for a non-empty list of address-wide references and canonical addresses,
\* with the same or any other reference list, raises BytecodeLinkingError.
C6_DoublePatchAlwaysRejected ==
    (p_second.called /\ AllCanonical /\ AddressWideRefs /\ Pairs # <<>>)
    => p_second.err = BytecodeLinkingError

\* C6, amended: applying apply_all_link_refs to the payload it returned,
\* with the same reference list and attr_dict, raises BytecodeLinkingError
\* when the references are of the address width, the addresses canonical
\* and at least one patched address is not the all-zero address.
C6_DoublePatchSameListRejected ==
    (p_second.called /\ p_second.same /\ AllCanonical /\ AddressWideRefs
        /\ SomeNonZeroPatched)
    => p_second.err = BytecodeLinkingError /\ p_second.val = <<>>

\* Reached: a second patch with the same list was rejected.
C6_Witness ==
    /\ p_second.called /\ p_second.same
    /\ AllCanonical /\ AddressWideRefs /\ SomeNonZeroPatched
    /\ p_second.err = BytecodeLinkingError

----------------------------------------------------------------------------
(* Properties of the classes (Spec) *)

LastClass == classes[last.cls]
Linked(k) == origin[k].parent # 0

\* C1: constructor and __init__ complete only on a class whose
\* needs_bytecode_linking is false; on a class whose flag is true both raise
\* BytecodeLinkingError at the linking check, before the address is
\* validated and before web3's Contract is called.
C1_GateBeforeConstruction ==
    last.op \in {"constructor", "__init__"}
    => /\ LastClass.needs_bytecode_linking
          => /\ last.err = BytecodeLinkingError
             /\ last.steps = <<StepLinkingCheck>>
       /\ last.err = NoError => ~LastClass.needs_bytecode_linking
       /\ (\E i \in DOMAIN last.steps : last.steps[i] = StepSuper)
          => ~LastClass.needs_bytecode_linking

\* Reached: __init__ with a well-formed address on a class that needs
\* linking was rejected at the linking check.
C1_Witness ==
    /\ last.op = "__init__"
    /\ LastClass.needs_bytecode_linking
    /\ is_canonical_address(last.address)
    /\ last.err = BytecodeLinkingError

\* Every referenced region of a payload under a non-empty reference list is
\* in range and all zero.
AllRegionsZero(bytes, link_refs) ==
    LET ps == RefOffsetPairs(link_refs.items)
    IN  /\ ps # <<>>
        /\ \A i \in DOMAIN ps :
              /\ ps[i].offset + ps[i].ref.length <= Len(bytes)
              /\ \A k \in 1..ps[i].ref.length : bytes[ps[i].offset + k] = 0

\* C2: a class created by the factory whose deployment payload or runtime
\* payload has its referenced regions all zero rejects constructor and
\* __init__ with BytecodeLinkingError; on a class link_bytecode returned,
\* constructor and __init__ (with a well-formed address) are accepted.
C2_UnlinkedRegionsGateConstruction ==
    last.op \in {"constructor", "__init__"}
    => /\ (~Linked(last.cls)
           /\ (\/ AllRegionsZero(LastClass.bytecode, LastClass.unlinked_references)
               \/ AllRegionsZero(LastClass.bytecode_runtime,
                                 LastClass.linked_references)))
          => last.err = BytecodeLinkingError
       /\ (Linked(last.cls)
           /\ (last.op = "__init__" => is_canonical_address(last.address)))
          => last.err = NoError

\* The names validate_attr_dict requires: those of both reference lists.
RequiredNames(cls) ==
    RefNames(cls.unlinked_references) \cup RefNames(cls.linked_references)
HasReferences(cls) ==
    Truthy(cls.unlinked_references) \/ Truthy(cls.linked_references)
CanonicalDict(attr_dict) ==
    \A n \in DOMAIN attr_dict : is_canonical_address(attr_dict[n])

\* C7: on a class with at least one reference list and an attr_dict of
\* canonical addresses, validate_attr_dict accepts iff the keys of the
\* attr_dict are exactly the names of the deployment and the runtime
\* references; a missing name and an extra name are rejected with
\* BytecodeLinkingError.
C7_ExactMatchValidation ==
    (last.op = "validate_attr_dict" /\ HasReferences(LastClass)
        /\ CanonicalDict(last.attr_dict))
    => /\ last.err = NoError <=> DOMAIN last.attr_dict = RequiredNames(LastClass)
       /\ last.err # NoError => last.err = BytecodeLinkingError

\* Reached: an attr_dict naming one deployment and one runtime reference
\* was accepted.
C7_Witness ==
    /\ last.op = "validate_attr_dict" /\ last.err = NoError
    /\ RefNames(LastClass.unlinked_references) = {"A"}
    /\ RefNames(LastClass.linked_references) = {"B"}
    /\ DOMAIN last.attr_dict = {"A", "B"}

\* C8: validate_attr_dict and link_bytecode reject with BytecodeLinkingError
\* every attr_dict with a value that is not a canonical address, also when
\* its keys match; link_bytecode then patches nothing and returns no class,
\* so every class link_bytecode returned was patched with canonical
\* addresses only.
C8_CanonicalAddressEnforced ==
    /\ (last.op \in {"validate_attr_dict", "link_bytecode"}
         /\ ~CanonicalDict(last.attr_dict))
        => /\ last.err = BytecodeLinkingError
           /\ last.ret = 0
           /\ \A i \in DOMAIN last.steps :
                 last.steps[i] \notin {StepPatchBytecode, StepPatchRuntime}
    /\ \A k \in DOMAIN classes : Linked(k) => CanonicalDict(origin[k].attr_dict)

\* Reached: link_bytecode on a class that needs linking rejected an
\* attr_dict with the right keys and a checksum string as a value.
C8_Witness ==
    /\ last.op = "link_bytecode"
    /\ LastClass.needs_bytecode_linking
    /\ DOMAIN last.attr_dict = RequiredNames(LastClass)
    /\ \E n \in DOMAIN last.attr_dict : ~last.attr_dict[n].bytes
    /\ last.err = BytecodeLinkingError /\ last.msg = MsgNotCanonical

C10_LinkAllOrNothing ==
    /\ last.op = "link_bytecode"
        => LET valid == validate_attr_dict(LastClass, last.attr_dict)
               deployed == apply_all_link_refs(LastClass.bytecode,
                               LastClass.unlinked_references, last.attr_dict)
               runtime == apply_all_link_refs(LastClass.bytecode_runtime,
                               LastClass.linked_references, last.attr_dict)
           IN  /\ (valid.err # NoError \/ deployed.err # NoError
                     \/ runtime.err # NoError)
                  => last.err # NoError
               /\ last.err # NoError => last.ret = 0
               /\ last.err = NoError => last.ret = Len(classes)
    /\ \A k \in DOMAIN classes :
          Linked(k)
          => LET parent == classes[origin[k].parent]
                 deployed == apply_all_link_refs(parent.bytecode,
                                 parent.unlinked_references, origin[k].attr_dict)
                 runtime == apply_all_link_refs(parent.bytecode_runtime,
                                 parent.linked_references, origin[k].attr_dict)
             IN  /\ deployed.err = NoError /\ classes[k].bytecode = deployed.val
                 /\ runtime.err = NoError /\ classes[k].bytecode_runtime = runtime.val

\* Reached: the deployment payload was patched, the runtime payload hit a
\* non-empty region, and link_bytecode raised without returning a class.
C10_Witness ==
    /\ last.op = "link_bytecode"
    /\ last.steps = <<StepChecks, StepValidate, StepPatchBytecode, StepPatchRuntime>>
    /\ last.err = BytecodeLinkingError /\ last.msg = MsgCannotApply
    /\ last.ret = 0 /\ Len(classes) = 1

\* C11: the class link_bytecode builds from the patched payloads has its
\* state recomputed by the scan of the patched payloads against their
\* reference lists, and link_bytecode returns it only if that state is
\* linked: no class link_bytecode returned has its referenced regions still
\* all zero.
C11_ReturnedClassRescanned ==
    \A k \in DOMAIN classes :
        Linked(k)
        => /\ ~classes[k].needs_bytecode_linking
           /\ ~AllRegionsZero(classes[k].bytecode, classes[k].unlinked_references)

\* C12: a class whose runtime payload has a reference list with every
\* referenced region all zero starts with needs_bytecode_linking true, also
\* when the deployment payload has no references or no empty regions, and
\* link_bytecode is not refused on it as not requiring linking.
C12_RuntimeRegionsStartUnlinked ==
    /\ AllRegionsZero(classes[1].bytecode_runtime, classes[1].linked_references)
        => classes[1].needs_bytecode_linking
    /\ (last.op = "link_bytecode" /\ last.cls = 1
         /\ AllRegionsZero(classes[1].bytecode_runtime, classes[1].linked_references))
        => last.msg # MsgNotRequired

\* Some referenced region of p_bytecode contains a non-zero byte.
SomeRegionNonZero ==
    \E i \in 1..Len(Pairs) : \E k \in Region(i) :
        k \in 1..Len(p_bytecode) /\ p_bytecode[k] # 0

\* C13: for every payload and every non-empty reference list whose regions
\* lie within the payload, is_prelinked_bytecode reports pre-linked exactly
\* when at least one referenced region contains a non-zero byte, and
\* needs-linking exactly when every referenced region is all zero.
C13_ScanIffSomeRegionNonZero ==
    (p_input_scan.called /\ Truthy(p_link_refs) /\ RegionsInRange)
    => /\ p_input_scan.prelinked <=> SomeRegionNonZero
       /\ ~p_input_scan.prelinked <=> RegionsAllZero

\* Two regions were scanned, one all zero and one with a non-zero byte, and
\* the payload was reported pre-linked.
C13_Witness ==
    /\ p_input_scan.called /\ RegionsInRange
    /\ Len(Pairs) = 2
    /\ \A k \in Region(1) : p_bytecode[k] = 0
    /\ \E k \in Region(2) : p_bytecode[k] # 0
    /\ p_input_scan.prelinked

\* The position, in the order of application, of offset number o of
\* reference number r: after every offset of the references before r.
RECURSIVE OffsetsBefore(_)
OffsetsBefore(r) ==
    IF r <= 1 THEN 0
    ELSE OffsetsBefore(r - 1) + Len(p_link_refs.items[r - 1].offsets)
PairIndex(r, o) == OffsetsBefore(r) + o

\* The outcome after the first n (reference, offset) pairs, each applied
\* once, one after the other; an error ends the run.
InOrder[n \in 0..Len(Pairs)] ==
    IF n = 0 THEN Return(p_bytecode)
    ELSE IF InOrder[n - 1].err # NoError THEN InOrder[n - 1]
    ELSE apply_link_ref(Pairs[n].offset, Pairs[n].ref.length, ValueOf(n),
                        InOrder[n - 1].val)

\* C15: apply_all_link_refs applies every (reference, offset) pair exactly
\* once, references in list order and offsets in order within a reference,
\* so its outcome (payload or error) is a function of its inputs; with an
\* absent or empty reference list it returns the payload it was given.
C15_EveryPairOnceInOrder ==
    p_out.called
    => /\ ~Truthy(p_link_refs) => (p_out.err = NoError /\ p_out.val = p_bytecode)
       /\ (Truthy(p_link_refs) /\ NamesDefined)
          => /\ Len(Pairs) = OffsetsBefore(Len(p_link_refs.items) + 1)
             /\ \A r \in DOMAIN p_link_refs.items :
                   \A o \in DOMAIN p_link_refs.items[r].offsets :
                       /\ Pairs[PairIndex(r, o)].ref = p_link_refs.items[r]
                       /\ Pairs[PairIndex(r, o)].offset = p_link_refs.items[r].offsets[o]
             /\ p_out.err = InOrder[Len(Pairs)].err
             /\ p_out.val = InOrder[Len(Pairs)].val

\* A reference with two offsets was patched, the higher offset first, two
\* steps in all, and the payload changed.
C15_Witness ==
    /\ p_out.called /\ p_out.err = NoError
    /\ Len(p_link_refs.items) = 1
    /\ Len(Pairs) = 2
    /\ Pairs[1].offset > Pairs[2].offset
    /\ p_out.val # p_bytecode

\* The region of pair n holds a non-zero byte in the payload the steps
\* before n produced.
NonEmptyWhenPatched(n) ==
    /\ InOrder[n - 1].err = NoError
    /\ \E k \in Region(n) :
          k \in 1..Len(InOrder[n - 1].val) /\ InOrder[n - 1].val[k] # 0

\* C16: apply_all_link_refs never overwrites a non-empty region: when the
\* region of some step holds a non-zero byte at the time the step runs (a
\* byte of the input or of an earlier patch), the call raises
\* BytecodeLinkingError and returns no payload; the ValidationError of the
\* emptiness check escapes neither the patcher nor the scanner.
C16_NonEmptyRegionIsLinkingError ==
    /\ p_out.err # ValidationError
    /\ p_second.err # ValidationError
    /\ (p_out.called /\ Truthy(p_link_refs) /\ NamesDefined
        /\ \E n \in 1..Len(Pairs) : NonEmptyWhenPatched(n))
       => (p_out.err = BytecodeLinkingError /\ p_out.val = <<>>)

\* The first step patched a non-zero address, the second step's region
\* overlaps it, and the call raised BytecodeLinkingError.
C16_Witness ==
    /\ p_out.called /\ NamesDefined /\ RegionsAllZero
    /\ Len(Pairs) = 2
    /\ Region(1) \cap Region(2) # {}
    /\ NonEmptyWhenPatched(2)
    /\ p_out.err = BytecodeLinkingError

\* C14: link_bytecode is accepted only on a class that needs linking and
\* has a reference list: a class with no reference list is refused as
\* having no linkable bytecode, a class that does not need linking is
\* refused whatever the attr_dict, and so a class link_bytecode returned
\* refuses every further link_bytecode and keeps needs_bytecode_linking
\* false.
C14_LinkOnlyOnceOnUnlinked ==
    /\ \A k \in DOMAIN classes : Linked(k) => ~classes[k].needs_bytecode_linking
    /\ last.op = "link_bytecode"
       => /\ ~HasReferences(LastClass)
             => /\ last.err = BytecodeLinkingError
                /\ last.msg = MsgNoLinkable
          /\ (HasReferences(LastClass) /\ ~LastClass.needs_bytecode_linking)
             => /\ last.err = BytecodeLinkingError
                /\ last.msg = MsgNotRequired
          /\ Linked(last.cls) => (last.err = BytecodeLinkingError /\ last.ret = 0)
          /\ (~AllRegionsZero(LastClass.bytecode, LastClass.unlinked_references)
              /\ ~AllRegionsZero(LastClass.bytecode_runtime,
                                 LastClass.linked_references))
             => last.err = BytecodeLinkingError
          /\ last.ret # 0
             => (HasReferences(LastClass) /\ LastClass.needs_bytecode_linking)

\* Reached: link_bytecode on a class that link_bytecode returned, with an
\* attr_dict that validates for it, was refused.
C14_Witness ==
    /\ last.op = "link_bytecode" /\ Linked(last.cls)
    /\ DOMAIN last.attr_dict = RequiredNames(LastClass)
    /\ CanonicalDict(last.attr_dict)
    /\ last.err = BytecodeLinkingError /\ last.msg = MsgNotRequired

\* The class has exactly one non-empty reference list.
OneReferenceList(cls) ==
    Truthy(cls.unlinked_references) # Truthy(cls.linked_references)
\* That list.
TheReferenceList(cls) ==
    IF Truthy(cls.unlinked_references) THEN cls.unlinked_references
    ELSE cls.linked_references

\* C17: validate_attr_dict raises BytecodeLinkingError on every class
\* without reference lists, whatever the attr_dict, the empty one included;
\* on a class with exactly one reference list the required names are the
\* names of that list.
C17_NoReferencesAlwaysRejected ==
    last.op = "validate_attr_dict"
    => /\ ~HasReferences(LastClass)
          => /\ last.err = BytecodeLinkingError
             /\ last.msg = MsgNoReferences
       /\ OneReferenceList(LastClass)
          => /\ last.msg = MsgAllDefined
                <=> DOMAIN last.attr_dict # RefNames(TheReferenceList(LastClass))
             /\ last.err = NoError
                => DOMAIN last.attr_dict = RefNames(TheReferenceList(LastClass))

\* Reached: the empty attr_dict was rejected on a class without references.
C17_Witness ==
    /\ last.op = "validate_attr_dict"
    /\ ~HasReferences(LastClass)
    /\ last.attr_dict = EmptyDict
    /\ last.err = BytecodeLinkingError /\ last.msg = MsgNoReferences

LinkSteps == <<StepChecks, StepValidate, StepPatchBytecode, StepPatchRuntime,
               StepFactory>>
Ran(step) == \E i \in DOMAIN last.steps : last.steps[i] = step

\* C18: link_bytecode runs the state and reference checks, the validation,
\* the deployment patch and the runtime patch in that order; when the
\* validation fails no patch step runs; when a patch step runs every name
\* of both reference lists is a key of the attr_dict, so link_bytecode never
\* fails with KeyError.
C18_ValidationBeforePatching ==
    last.op = "link_bytecode"
    => /\ last.err # KeyError
       /\ Len(last.steps) \in 1..Len(LinkSteps)
       /\ \A i \in DOMAIN last.steps : last.steps[i] = LinkSteps[i]
       /\ ~(DOMAIN last.attr_dict = RequiredNames(LastClass)
             /\ CanonicalDict(last.attr_dict))
          => (~Ran(StepPatchBytecode) /\ ~Ran(StepPatchRuntime))
       /\ (Ran(StepPatchBytecode) \/ Ran(StepPatchRuntime))
          => RequiredNames(LastClass) \subseteq DOMAIN last.attr_dict

\* Reached: a class with a deployment reference and a runtime reference of
\* another name was linked, both patch steps ran.
C18_Witness ==
    /\ last.op = "link_bytecode" /\ last.err = NoError
    /\ Ran(StepPatchBytecode) /\ Ran(StepPatchRuntime)
    /\ Truthy(LastClass.unlinked_references)
    /\ Truthy(LastClass.linked_references)
    /\ RefNames(LastClass.unlinked_references)
           # RefNames(LastClass.linked_references)

\* C19: __init__ on a class that does not need linking validates the
\* address before it calls web3's Contract: a malformed address fails in
\* validate_address and web3's Contract is never called; it is called only
\* after the linking check and then the address validation have passed.
C19_AddressValidatedBeforeSuper ==
    last.op = "__init__"
    => /\ (~LastClass.needs_bytecode_linking /\ ~is_canonical_address(last.address))
          => /\ last.err = ValidationError
             /\ last.steps = <<StepLinkingCheck, StepValidateAddress>>
       /\ Ran(StepSuper)
          => /\ last.steps = <<StepLinkingCheck, StepValidateAddress, StepSuper>>
             /\ is_canonical_address(last.address)
             /\ ~LastClass.needs_bytecode_linking

\* Reached: __init__ with a malformed address on a class link_bytecode
\* returned failed in validate_address.
C19_Witness ==
    /\ last.op = "__init__" /\ Linked(last.cls)
    /\ ~is_canonical_address(last.address)
    /\ last.err = ValidationError
    /\ ~Ran(StepSuper)

====
